---- MODULE Spec2Model ----
(***************************************************************************)
(* Model of sine_wave_superposition.ipynb: plot_wave_superposition builds  *)
(* five Line2D objects and a sample grid, and hands the closure animate    *)
(* to matplotlib's FuncAnimation, which calls it once per frame.           *)
(*                                                                         *)
(* Floats are modelled as fixed-point numbers: the integer v stands for    *)
(* the real v / Scale.  One-dimensional numpy arrays are modelled by       *)
(* their length n and their values at the probe indices (numpy's           *)
(* arithmetic on arrays is elementwise, so an element's value depends on   *)
(* the same index of the operands only).                                   *)
(***************************************************************************)
EXTENDS Integers, FiniteSets, Sequences, TLC

\* ------------------------------------------------------------ bounds
\* Array elements are observed at the indices j*ProbeStride and
\* j*ProbeStride - 1, j up to NumProbes.
ProbeStride == 2450
NumProbes == 2

Probe == {j * ProbeStride : j \in 0..NumProbes}
           \cup {j * ProbeStride - 1 : j \in 1..NumProbes}

\* ------------------------------------------------------------ floats
\* Fixed-point scale: the float r is the integer r * Scale.
Scale == 10^4

Abs(a) == IF a < 0 THEN -a ELSE a

Sgn(a) == IF a < 0 THEN -1 ELSE 1

\* a / b rounded to nearest, ties away from zero (sign-symmetric, as IEEE
\* rounding is).
RDiv(a, b) ==
    Sgn(a) * ((Abs(a) \div b) + (IF 2 * (Abs(a) % b) >= b THEN 1 ELSE 0))

\* Float product a * b: the exact product rounded once.  The product is
\* split so that no intermediate exceeds 32 bits.
FMul(a, b) ==
    LET ah == Abs(a) \div Scale
        al == Abs(a) % Scale
        bh == Abs(b) \div Scale
        bl == Abs(b) % Scale
    IN  Sgn(a) * Sgn(b)
          * (ah * bh * Scale + ah * bl + al * bh + RDiv(al * bl, Scale))

\* A Python int converted to float.
Float(k) == k * Scale

\* np.pi
Pi == 31416

\* 2 pi in units of 10^-6, used for the argument reduction inside np.sin.
TwoPiFine == 6283185

\* sin on [0, pi/2]: the Taylor series to the 9th power in Horner form,
\* the result never above 1.
SinQuadrant(r) ==
    LET r2 == (r * r) \div Scale
        t4 == Scale - r2 \div 72
        t3 == Scale - ((r2 * t4) \div Scale) \div 42
        t2 == Scale - ((r2 * t3) \div Scale) \div 20
        t1 == Scale - ((r2 * t2) \div Scale) \div 6
        s  == (r * t1) \div Scale
    IN  IF s > Scale THEN Scale ELSE s

\* sin on [0, 2 pi), the argument in units of 10^-6.
SinPeriod(m) ==
    LET half == TwoPiFine \div 2
        q    == IF m >= half THEN m - half ELSE m
        f    == IF 2 * q > half THEN half - q ELSE q
        s    == SinQuadrant(RDiv(f, 10^6 \div Scale))
    IN  IF m >= half THEN -s ELSE s

\* np.sin of one float: odd, 2 pi periodic, |sin| <= 1.
Sin(a) == Sgn(a) * SinPeriod((Abs(a) * (10^6 \div Scale)) % TwoPiFine)

\* ------------------------------------------------------------ arrays
Idx(n) == {k \in Probe : k < n}

EmptyArray == [n |-> 0, v |-> [k \in Idx(0) |-> 0]]

\* arange with the stop value included.
arangeInclusive(start, stop, step) ==
    LET n == IF stop >= start THEN (stop - start) \div step + 1 ELSE 0
    IN  [n |-> n, v |-> [k \in Idx(n) |-> start + k * step]]

\* np.arange(start, stop, step), step > 0: ceil((stop - start) / step)
\* elements start + k * step.
arange(start, stop, step) ==
    LET n == IF stop > start THEN (stop - start + step - 1) \div step ELSE 0
    IN  [n |-> n, v |-> [k \in Idx(n) |-> start + k * step]]

\* array + array (elementwise, equal shapes)
ArrAdd(a, b) == [n |-> a.n, v |-> [k \in Idx(a.n) |-> a.v[k] + b.v[k]]]

\* ------------------------------------------------------------ program constants
GridStart == 500
GridStop == 49500
GridStep == 10
PhaseRate == 1700
Hundredth == 100
frames == 200
YMargin == 2

\* ------------------------------------------------------------ inputs
\* Amplitudes: none, the reference calls' 10 mm, and a negative -2.5 mm.
\* Frequencies: those of the two reference calls, (140, -140) and (180, 180).
Amps == {0, Float(10), 0 - 25000}
Freqs == {<<Float(140), Float(0 - 140)>>, <<Float(180), Float(180)>>}

\* Frame indices animate may be called with out of order (SpecAny).
AnyFrames == 4

\* wa1 .. ipw2: the arguments of plot_wave_superposition, captured by animate
\* ylim:        the y-axis limits set on the four axes
\* x:           the sample grid
\* w1 .. rw:    the data of the five Line2D objects
\* phi:         the phase offsets of wave 1 and wave 2 in the last animate call
\* pc, pos:     the animation's state and the position of its frame sequence
\* frame:       the argument of the last animate call, -1 before the first
\* prev:        for calls made in any order (Call), the argument of the call
\*              before the last
VARIABLES wa1, wf1, wa2, wf2, ipw1, ipw2, ylim, x, w1, w2, sw1, sw2, rw,
          phi, pc, pos, frame, prev

params == <<wa1, wf1, wa2, wf2, ipw1, ipw2>>
lines == <<w1, w2, sw1, sw2, rw>>
driver == <<pc, pos, frame, prev>>
vars == <<params, ylim, x, lines, phi, driver>>

\* ylim without the abs() of the amplitudes.
YLimitsSigned(a1, a2) ==
    <<0 - ((a1 + a2) + Float(YMargin)), (a1 + a2) + Float(YMargin)>>

\* wa = [abs(wa1), abs(wa2)]; ylim=(-(sum(wa) + 2), sum(wa) + 2)
YLimits(a1, a2) ==
    LET wa == <<Abs(a1), Abs(a2)>>
    IN  <<0 - ((wa[1] + wa[2]) + Float(YMargin)), (wa[1] + wa[2]) + Float(YMargin)>>

\* Line2D data: ax.plot([], []) and Line2D.set_data(xdata, ydata)
Line(xd, yd) == [xd |-> xd, yd |-> yd]

\* p = -1 if ipw else 1
Polarity(ipw) == IF ipw THEN -1 ELSE 1

\* 0.17 * i
PhaseOf(i) == FMul(PhaseRate, Float(i))

\* Polarity inversion as a phase shift of pi instead of a sign.
WavePhaseShift(wa, p, wf, xs, ph) ==
    LET omega == FMul(FMul(Float(2), Pi), FMul(wf, Hundredth))
        shift == IF p < 0 THEN Pi ELSE 0
    IN  [n |-> xs.n,
         v |-> [k \in Idx(xs.n) |->
                  FMul(wa, Sin(FMul(omega, xs.v[k]) + ph + shift))]]

\* The frequency taken by its absolute value, as the titles do.
WaveAbsFreq(wa, p, wf, xs, ph) ==
    LET omega == FMul(FMul(Float(2), Pi), FMul(Abs(wf), Hundredth))
        amp   == FMul(wa, Float(p))
    IN  [n |-> xs.n,
         v |-> [k \in Idx(xs.n) |-> FMul(amp, Sin(FMul(omega, xs.v[k]) + ph))]]

\* The phase offset added outside the sine.
WavePhaseOutside(wa, p, wf, xs, ph) ==
    LET omega == FMul(FMul(Float(2), Pi), FMul(wf, Hundredth))
        amp   == FMul(wa, Float(p))
    IN  [n |-> xs.n,
         v |-> [k \in Idx(xs.n) |-> FMul(amp, Sin(FMul(omega, xs.v[k]))) + ph]]

\* wa * p * np.sin((2 * np.pi * (wf * 0.01)) * x + 0.17 * i)
\* (elementwise in x: scalar * array, array + scalar, np.sin(array))
Wave(wa, p, wf, xs, ph) ==
    LET omega == FMul(FMul(Float(2), Pi), FMul(wf, Hundredth))
        amp   == FMul(wa, Float(p))
    IN  [n |-> xs.n,
         v |-> [k \in Idx(xs.n) |-> FMul(amp, Sin(FMul(omega, xs.v[k]) + ph))]]

\* The sum rounded to one decimal.
ResultantRounded(w1y, w2y) ==
    [n |-> w1y.n,
     v |-> [k \in Idx(w1y.n) |->
              RDiv(w1y.v[k] + w2y.v[k], Scale \div 10) * (Scale \div 10)]]

\* resultant: w1y + w2y
Resultant(w1y, w2y) == ArrAdd(w1y, w2y)

\* animate with p not reassigned for wave 2.
animateReuseP(a1, f1, a2, f2, ip1, ip2, xs, i) ==
    LET p1   == Polarity(ip1)
        ph1  == PhaseOf(i)
        w1y  == Wave(a1, p1, f1, xs, ph1)
        ph2  == PhaseOf(i)
        w2y  == Wave(a2, p1, f2, xs, ph2)
    IN  [phi |-> <<ph1, ph2>>,
         w1 |-> Line(xs, w1y), w2 |-> Line(xs, w2y),
         sw1 |-> Line(xs, w1y), sw2 |-> Line(xs, w2y),
         rw |-> Line(xs, Resultant(w1y, w2y))]

\* animate with wave 2's phase advancing at a rate tied to its frequency.
animatePhasePerWave(a1, f1, a2, f2, ip1, ip2, xs, i) ==
    LET p1   == Polarity(ip1)
        ph1  == PhaseOf(i)
        w1y  == Wave(a1, p1, f1, xs, ph1)
        p2   == Polarity(ip2)
        ph2  == FMul(PhaseOf(i), FMul(f2, Hundredth))
        w2y  == Wave(a2, p2, f2, xs, ph2)
    IN  [phi |-> <<ph1, ph2>>,
         w1 |-> Line(xs, w1y), w2 |-> Line(xs, w2y),
         sw1 |-> Line(xs, w1y), sw2 |-> Line(xs, w2y),
         rw |-> Line(xs, Resultant(w1y, w2y))]

\* The body of animate(i) over its closure variables: the locals and the
\* data handed to the five set_data calls.
animate(a1, f1, a2, f2, ip1, ip2, xs, i) ==
    LET p1   == Polarity(ip1)
        ph1  == PhaseOf(i)
        w1y  == Wave(a1, p1, f1, xs, ph1)
        p2   == Polarity(ip2)
        ph2  == PhaseOf(i)
        w2y  == Wave(a2, p2, f2, xs, ph2)
    IN  [phi |-> <<ph1, ph2>>,
         w1 |-> Line(xs, w1y), w2 |-> Line(xs, w2y),
         sw1 |-> Line(xs, w1y), sw2 |-> Line(xs, w2y),
         rw |-> Line(xs, Resultant(w1y, w2y))]

\* A call that computes the waves on the first call only and reuses them.
FrameCached(i) ==
    \E r \in {animate(wa1, wf1, wa2, wf2, ipw1, ipw2, x, i)} :
        /\ IF frame = -1
              THEN /\ w1' = r.w1 /\ w2' = r.w2 /\ sw1' = r.sw1 /\ sw2' = r.sw2
                   /\ rw' = r.rw
              ELSE UNCHANGED lines
        /\ phi' = r.phi
        /\ UNCHANGED <<params, ylim, x>>

\* One call animate(i) by the driver.
Frame(i) ==
    \E r \in {animate(wa1, wf1, wa2, wf2, ipw1, ipw2, x, i)} :
        /\ w1' = r.w1 /\ w2' = r.w2 /\ sw1' = r.sw1 /\ sw2' = r.sw2
        /\ rw' = r.rw /\ phi' = r.phi
        /\ UNCHANGED <<params, ylim, x>>

\* plot_wave_superposition(wa1, wf1, wa2, wf2, ipw1, ipw2) up to plt.show()
Init ==
    /\ wa1 \in Amps /\ wa2 \in Amps
    /\ \E f \in Freqs : wf1 = f[1] /\ wf2 = f[2]
    /\ ipw1 \in BOOLEAN /\ ipw2 \in BOOLEAN
    /\ ylim = YLimits(wa1, wa2)
    /\ x = arange(GridStart, GridStop, GridStep)
    /\ w1 = Line(EmptyArray, EmptyArray) /\ w2 = Line(EmptyArray, EmptyArray)
    /\ sw1 = Line(EmptyArray, EmptyArray) /\ sw2 = Line(EmptyArray, EmptyArray)
    /\ rw = Line(EmptyArray, EmptyArray)
    /\ phi = <<0, 0>>
    /\ pc = "created" /\ pos = 0 /\ frame = -1 /\ prev = -1

\* The animation driver is matplotlib's FuncAnimation(fig, animate,
\* frames=200, interval=25, blit=True); the notebook holds only this call.
\* Its actions are the callbacks such a driver can make: a draw of the first
\* frame that leaves the frame sequence alone (blit set-up, a resize), the
\* first draw event that starts the timer, a timer tick that takes the next
\* frame of the sequence, a restart of an exhausted sequence, and the stop
\* (the sequence exhausted with no repeat, or the figure closed).

\* A draw of the first frame outside the sequence.
InitDraw ==
    /\ pc \in {"created", "running"}
    /\ Frame(0)
    /\ frame' = 0 /\ UNCHANGED <<pc, pos, prev>>

\* The first draw event: the first frame is drawn and the timer started.
Start ==
    /\ pc = "created"
    /\ Frame(0)
    /\ pc' = "running" /\ pos' = 0 /\ frame' = 0 /\ UNCHANGED prev

\* A timer tick: animate is called with the next frame of the sequence.
Step ==
    /\ pc = "running" /\ pos < frames
    /\ Frame(pos)
    /\ pos' = pos + 1 /\ frame' = pos /\ UNCHANGED <<pc, prev>>

\* A timer tick with the sequence exhausted, the animation repeating: the
\* first frame is drawn and a fresh sequence begun.
Repeat ==
    /\ pc = "running" /\ pos = frames
    /\ Frame(0)
    /\ pos' = 0 /\ frame' = 0 /\ UNCHANGED <<pc, prev>>

\* The driver stops: no further call of animate; the lines keep their data.
Close ==
    /\ pc \in {"created", "running"}
    /\ pc' = "closed"
    /\ UNCHANGED <<params, ylim, x, lines, phi, pos, frame, prev>>

Next == InitDraw \/ Start \/ Step \/ Repeat \/ Close

Spec == Init /\ [][Next]_vars

\* animate called with any frame index at any time.
Call ==
    \E i \in 0..(AnyFrames - 1) :
        /\ i < frames
        /\ Frame(i)
        /\ frame' = i /\ prev' = frame /\ UNCHANGED <<pc, pos>>

NextAny == Call

SpecAny == Init /\ [][NextAny]_vars

\* ------------------------------------------------------------ properties
\* animate has been called at least once.
Called == frame >= 0

AllZero(a) == \A k \in Idx(a.n) : a.v[k] = 0

SomeNonZero(a) == \E k \in Idx(a.n) : a.v[k] # 0

\* C1: after every animate call the resultant line's data is, at every
\* index, the sum of the data of wave 1 and wave 2 set in that same call,
\* with no rounding or clamping.
ResultantIsSum ==
    Called =>
        /\ rw.yd.n = w1.yd.n /\ rw.yd.n = w2.yd.n
        /\ \A k \in Idx(rw.yd.n) : rw.yd.v[k] = w1.yd.v[k] + w2.yd.v[k]
        /\ sw1.yd = w1.yd /\ sw2.yd = w2.yd

\* A late frame with both waves and the resultant non-zero at some index.
ResultantIsSumWitness ==
    /\ frame = frames - 1
    /\ \E k \in Idx(rw.yd.n) :
          /\ w1.yd.v[k] # 0 /\ w2.yd.v[k] # 0 /\ rw.yd.v[k] # 0
          /\ rw.yd.v[k] % (Scale \div 10) # 0

\* C2: the data sampled with the invert-polarity flags flipped and all
\* other inputs equal is, at every index, the negation of the data sampled
\* with the flags as they are.
PolarityIsNegation ==
    Called =>
        /\ \A y \in {animate(wa1, wf1, wa2, wf2, ~ipw1, ipw2, x, frame).w1.yd} :
              /\ y.n = w1.yd.n
              /\ \A k \in Idx(y.n) : y.v[k] = 0 - w1.yd.v[k]
        /\ \A y \in {animate(wa1, wf1, wa2, wf2, ipw1, ~ipw2, x, frame).w2.yd} :
              /\ y.n = w2.yd.n
              /\ \A k \in Idx(y.n) : y.v[k] = 0 - w2.yd.v[k]

\* The second reference call (10, 180, 10, 180, True) at a frame past the
\* first, wave 1 inverted and non-zero.
PolarityIsNegationWitness ==
    /\ wa1 = Float(10) /\ wf1 = Float(180) /\ wa2 = Float(10) /\ wf2 = Float(180)
    /\ ipw1 /\ ~ipw2 /\ frame > 0
    /\ SomeNonZero(w1.yd)

\* Equal amplitudes and polarity flags, exactly opposite frequencies.
OppositeFrequencies == wa1 = wa2 /\ ipw1 = ipw2 /\ wf1 = 0 - wf2

\* C3 as stated: with equal amplitudes and flags and opposite frequencies
\* the resultant is zero at every index in every frame.
OppositeFrequenciesCancel ==
    (Called /\ OppositeFrequencies) => AllZero(rw.yd)

\* C3 amended: with equal amplitudes and flags and opposite frequencies
\* the resultant is zero at every index when the phase offset is 0, that is
\* in frame 0.
OppositeFrequenciesCancelAtFrame0 ==
    (Called /\ OppositeFrequencies /\ frame = 0) => AllZero(rw.yd)

\* The first reference call (10, 140, 10, -140) in frame 0, the waves
\* themselves non-zero.
OppositeFrequenciesWitness ==
    /\ wa1 = Float(10) /\ wf1 = Float(140) /\ wa2 = Float(10) /\ wf2 = Float(0 - 140)
    /\ ~ipw1 /\ ~ipw2 /\ frame = 0
    /\ SomeNonZero(w1.yd) /\ SomeNonZero(w2.yd) /\ AllZero(rw.yd)

\* C4: a wave of amplitude 0 is sampled as all zeros, whatever its
\* frequency, flag and the frame, and the resultant then equals the other
\* wave at every index.
ZeroAmplitudeIsIdentity ==
    Called =>
        /\ wa1 = 0 => (AllZero(w1.yd) /\ rw.yd = w2.yd)
        /\ wa2 = 0 => (AllZero(w2.yd) /\ rw.yd = w1.yd)

\* Wave 1 of amplitude 0 and inverted, wave 2 non-zero, past frame 0.
ZeroAmplitudeWitness ==
    /\ wa1 = 0 /\ ipw1 /\ wa2 # 0 /\ frame > 0
    /\ SomeNonZero(w2.yd) /\ rw.yd = w2.yd

\* C5: in every frame both waves are sampled with the same phase offset,
\* 0.17 times the frame index, whatever the amplitudes, frequencies and
\* flags; so two waves of equal parameters have equal data.
SamePhaseOffset ==
    Called =>
        /\ phi[1] = phi[2]
        /\ phi[1] = PhaseRate * frame
        /\ (wa1 = wa2 /\ wf1 = wf2 /\ ipw1 = ipw2) => w1.yd = w2.yd

\* Frame 100 (offset 17 rad) of two waves that differ in every parameter.
SamePhaseOffsetWitness ==
    /\ frame = 100 /\ phi = <<Float(17), Float(17)>>
    /\ wa1 # wa2 /\ wf1 # wf2 /\ ipw1 # ipw2

\* C6: the grid is the one computed at construction (start 0.05, step
\* 0.001, 4900 values, all below 4.95) in every state, and after any
\* animate call all five lines hold that grid as x data and y data of the
\* grid's length.
GridIsFixed ==
    /\ x = arange(GridStart, GridStop, GridStep)
    /\ x.n = (GridStop - GridStart) \div GridStep
    /\ x.n = 4900
    /\ \A k \in Idx(x.n) : x.v[k] = GridStart + k * GridStep /\ x.v[k] < GridStop
    /\ Called =>
          \A l \in {w1, w2, sw1, sw2, rw} : l.xd = x /\ l.yd.n = x.n

\* The last frame of a pass, the last grid value 4.949 in the data.
GridIsFixedWitness ==
    /\ frame = frames - 1
    /\ 4899 \in Idx(rw.xd.n) /\ rw.xd.v[4899] = 49490
    /\ 4899 \in DOMAIN rw.yd.v

\* C8: after animate(i), whatever calls came before and in whatever
\* order, the five lines hold the data that animate computes from the
\* parameters, the grid and i alone.
FramesAreStateless ==
    Called =>
        \A r \in {animate(wa1, wf1, wa2, wf2, ipw1, ipw2, x, frame)} :
            /\ w1 = r.w1 /\ w2 = r.w2 /\ sw1 = r.sw1 /\ sw2 = r.sw2
            /\ rw = r.rw

\* A call with an index below that of the call before it.
FramesAreStatelessWitness ==
    /\ prev > frame /\ frame >= 1
    /\ SomeNonZero(w1.yd) /\ SomeNonZero(rw.yd)

\* C9: in every frame and at every index the plotted values lie inside
\* the y limits: |wave1| <= |wa1|, |wave2| <= |wa2|, |resultant| <=
\* |wa1| + |wa2|, which is below the limit |wa1| + |wa2| + 2.
WithinYLimits ==
    /\ ylim[2] = Abs(wa1) + Abs(wa2) + Float(YMargin)
    /\ ylim[1] = 0 - ylim[2]
    /\ Called =>
          /\ \A k \in Idx(w1.yd.n) : Abs(w1.yd.v[k]) <= Abs(wa1)
          /\ \A k \in Idx(w2.yd.n) : Abs(w2.yd.v[k]) <= Abs(wa2)
          /\ \A k \in Idx(rw.yd.n) :
                /\ Abs(rw.yd.v[k]) <= Abs(wa1) + Abs(wa2)
                /\ ylim[1] < rw.yd.v[k] /\ rw.yd.v[k] < ylim[2]

\* A negative amplitude with the flag set, the wave non-zero.
WithinYLimitsWitness ==
    /\ wa1 < 0 /\ ipw1 /\ wa2 > 0 /\ frame > 0
    /\ \E k \in Idx(rw.yd.n) : w1.yd.v[k] > 0 /\ rw.yd.v[k] > Abs(wa1)

\* C10: wave 2's data depends on (wa2, wf2, ipw2, grid, i) only and wave
\* 1's on (wa1, wf1, ipw1, grid, i) only: in every frame, the run that
\* differs in wave 1's amplitude, frequency and flag gives the same wave 2
\* data, and the run that differs in wave 2's gives the same wave 1 data.
WavesDoNotInterfere ==
    Called =>
        /\ animate(wa1 + Float(1), 0 - wf1, wa2, wf2, ~ipw1, ipw2, x, frame).w2 = w2
        /\ animate(wa1, wf1, wa2 + Float(1), 0 - wf2, ipw1, ~ipw2, x, frame).w1 = w1

\* The flags differ and wave 2 is non-zero.
WavesDoNotInterfereWitness ==
    /\ ipw1 /\ ~ipw2 /\ wa2 # 0 /\ frame > 0
    /\ SomeNonZero(w2.yd)

====
